---- MODULE Spec2Model ----
(***************************************************************************)
(* Credential acquisition of mcp-google-workspace: gspace_auth.get_service *)
(* and the token cache files under secrets/ it reads and writes.           *)
(*                                                                         *)
(* A caller is one invocation context (a tool call running get_service).   *)
(* get_service runs without blocking from its entry to the first network   *)
(* exchange (creds.refresh or flow.run_local_server), and again from the   *)
(* exchange's answer to its return, so each of these stretches is one      *)
(* action.  The identity provider and the human in front of the browser    *)
(* are the environment: whether an exchange succeeds, how long the new     *)
(* access token lives, whether a refresh token comes with it.              *)
(* Spec is the single-threaded server of the design: only Main calls.       *)
(* ToolSpec puts tools of gmail.py, gdrive.py and gcalendar.py on top of    *)
(* it, starting with no token file: a tool invocation is one get_service    *)
(* call followed by the tool's remote calls.                                *)
(* RaceSpec runs two callers against an empty cache, within the lifetime    *)
(* of the tokens issued.                                                    *)
(*                                                                         *)
(* Library calls are modelled by their documented behaviour:               *)
(*   Credentials.from_authorized_user_file  json.load, then                *)
(*       from_authorized_user_info: ValueError unless the object has the   *)
(*       key refresh_token; the scopes argument overrides the stored ones  *)
(*   Credentials.to_json   drops the entries whose value is None           *)
(*   Credentials.valid     token is set and not expired                    *)
(***************************************************************************)
EXTENDS Integers, Sequences, FiniteSets, TLC

\* ---------------------------------------------------------------- bounds
\* the clock runs 0..MaxTime
MaxTime == 2
\* token answers the provider gives in one behaviour
MaxIssued == 2
\* longest lifetime (expires_in) of an access token
MaxLife == 1
\* most messages a list answer names, most further chunks of a download
MaxItems == 2

\* ------------------------------------------------------------ input sets
Callers == {"c1", "c2"}
\* the caller of the single-threaded server (spec section 5)
Main == "c1"
\* api_name values the tools pass (gmail.py:19, gdrive.py:29)
Services == {"gmail", "drive"}
\* the api_version every call site passes with an api_name
\* (gmail.py:19 "v1", gdrive.py:29 "v3")
Version(api_name) == IF api_name = "gmail" THEN "v1" ELSE "v3"
\* the scope lists the call sites pass with an api_name:
\* gmail.py:14-15 GMAIL_SCOPES and gmail_test.py:9; gdrive.py:29 and gdrive.py:76
Scopes(api_name) ==
    IF api_name = "gmail"
    THEN {{"gmail.readonly", "gmail.send"}, {"gmail.readonly"}}
    ELSE {{"drive.metadata.readonly"}, {"drive.file"}}

\* Python's None, for creds and for results
None == [kind |-> "None"]
\* opaque token strings: the access and the refresh token of the provider's
\* n-th answer; Null is a token field holding None
Token(n) == <<"access", n>>
RefreshToken(n) == <<"refresh", n>>
Null == <<>>

\* --------------------------------------------------------- the file system
\* gspace_auth.py:15  os.path.join(base_path, "secrets", f"{api_name}_token.json")
token_path(api_name) == <<"secrets", api_name, "_token.json">>

\* gspace_auth.py:28  os.path.join(base_path, "secrets", "oauth_client.json")
client_file == <<"secrets", "oauth_client.json">>

\* a file holding something json.load rejects
Garbage == [garbage |-> TRUE]

\* the registration the operator provides
Registration == [installed |-> TRUE]

\* gspace_auth.py:18  os.path.exists
exists(fs, path) == path \in DOMAIN fs

\* the file opened with "a": the text lands behind what was there
write_file_append(content, text) == Append(content, text)

\* gspace_auth.py:33-34  open(token_path, "w") truncates, then one write
write_file(content, text) == <<text>>

\* the write lands in one token file shared by all the services
open_w_shared(fs, path, text) ==
    [p \in DOMAIN fs \cup {<<"secrets", "all", "_token.json">>} |->
        IF p = <<"secrets", "all", "_token.json">> THEN <<text>> ELSE fs[p]]

\* the file opened with "x": an existing file is left as it is
open_x(fs, path, text) ==
    IF path \in DOMAIN fs THEN fs
    ELSE [p \in DOMAIN fs \cup {path} |-> IF p = path THEN <<text>> ELSE fs[p]]

\* the file system after open(path, "w").write(text)
open_w(fs, path, text) ==
    [p \in DOMAIN fs \cup {path} |->
        IF p = path
        THEN write_file(IF exists(fs, path) THEN fs[path] ELSE <<>>, text)
        ELSE fs[p]]

\* ------------------------------------------------------------- credentials
\* Credentials.to_json: the fields of the credential, None entries removed
to_json(creds) ==
    IF creds.refresh_token = Null
    THEN [token |-> creds.token, expiry |-> creds.expiry, scopes |-> creds.scopes]
    ELSE [token |-> creds.token, refresh_token |-> creds.refresh_token,
          expiry |-> creds.expiry, scopes |-> creds.scopes]

\* json.load accepts the file: exactly one JSON object
parses(content) == Len(content) = 1 /\ content[1] # Garbage

\* from_authorized_user_info: the keys it requires are there
well_formed(content) == parses(content) /\ "refresh_token" \in DOMAIN content[1]

\* gspace_auth.py:20  Credentials.from_authorized_user_file(token_path, scopes)
\* on a well-formed file; the scopes passed in replace the stored ones
from_authorized_user_file(content, scopes) ==
    [token |-> content[1].token, refresh_token |-> content[1].refresh_token,
     expiry |-> content[1].expiry, scopes |-> scopes]

\* a credential taken for expired one tick before its expiry
expired_early(creds, t) == t + 1 >= creds.expiry

\* Credentials.expired
expired(creds, t) == t >= creds.expiry

\* valid without the expiry test
valid_ignores_expiry(creds, t) == creds.token # Null

\* Credentials.valid
valid(creds, t) == creds.token # Null /\ ~expired(creds, t)

\* line 23 without its test: every call authorizes again
needs_auth_always(creds, t) == TRUE

\* gspace_auth.py:23  if not creds or not creds.valid
needs_auth(creds, t) == creds = None \/ ~valid(creds, t)

\* line 24 without its last test
can_refresh_any_expired(creds, t) == creds # None /\ expired(creds, t)

\* gspace_auth.py:24  if creds and creds.expired and creds.refresh_token
can_refresh(creds, t) ==
    creds # None /\ expired(creds, t) /\ creds.refresh_token # Null

\* a flow built without reading the registration file
from_client_secrets_file_unchecked(fs) == TRUE

\* gspace_auth.py:29  InstalledAppFlow.from_client_secrets_file(client_file, scopes)
\* succeeds when the registration file can be read
from_client_secrets_file(fs) == exists(fs, client_file)

\* ------------------------------------------------------------------- state
VARIABLES
    fs,       \* the directory secrets/: path -> content, a sequence of JSON texts
    now,      \* the clock
    issued,   \* number of tokens the provider has issued
    pc,       \* per caller: where its get_service call is
    args,     \* per caller: the arguments of its call, and when it was made
    creds,    \* per caller: the local variable creds
    found,    \* per caller: what lines 18-20 found at token_path
    trace,    \* per caller: the files and endpoints its call has touched, in order
    result,   \* per caller: the handle returned or the exception raised
    inv       \* per caller: the tool invocation that made the call

vars == <<fs, now, issued, pc, args, creds, found, trace, result, inv>>

\* the exchanges with the identity provider
Network == {"refresh", "flow"}

\* googleapiclient.discovery.build(api_name, api_version, credentials=creds)
build(api_name, api_version, credentials, t) ==
    [kind |-> "handle", api_name |-> api_name, api_version |-> api_version,
     credentials |-> credentials, at |-> t]

\* what os.path.exists and the read of the token file gave
no_file == [present |-> FALSE, content |-> <<>>]
file(content) == [present |-> TRUE, content |-> content]

\* an exception leaving get_service
raise(error) == [kind |-> "error", error |-> error]

\* no tool is running: get_service was called directly
no_tool ==
    [tool |-> "none", phase |-> "none", acquires |-> 0, calls |-> 0,
     items |-> 0, pending |-> 0, failed_call |-> FALSE, outcome |-> None]

\* credentials of an earlier run: expired at the start or not, with or
\* without a refresh token
InitCreds(api_name) ==
    [token : {Token(0)}, refresh_token : {Null, RefreshToken(0)},
     expiry : {0, 1}, scopes : Scopes(api_name)]

\* token files found at the start: unreadable text, what to_json wrote for an
\* earlier run (no refresh_token key when there was no refresh token), or a
\* record whose refresh_token is null
InitContents(api_name) ==
    {<<Garbage>>}
    \cup {<<to_json(c)>> : c \in InitCreds(api_name)}
    \cup {<<[to_json(c) EXCEPT !.refresh_token = Null]>> :
             c \in {x \in InitCreds(api_name) : x.refresh_token # Null}}

Init ==
    /\ \E D \in SUBSET Services, reg \in BOOLEAN :
         \E f \in [D -> UNION {InitContents(s) : s \in Services}] :
            /\ \A s \in D : f[s] \in InitContents(s)
            /\ fs = [p \in {token_path(s) : s \in D}
                        \cup (IF reg THEN {client_file} ELSE {}) |->
                    IF p = client_file THEN <<Registration>> ELSE f[p[2]]]
    /\ now = 0
    /\ issued = 0
    /\ pc = [c \in Callers |-> "idle"]
    /\ args = [c \in Callers |-> None]
    /\ creds = [c \in Callers |-> None]
    /\ found = [c \in Callers |-> no_file]
    /\ trace = [c \in Callers |-> <<>>]
    /\ result = [c \in Callers |-> None]
    /\ inv = [c \in Callers |-> no_tool]

\* gspace_auth.py:12-36, from the entry to the first exchange with the provider
\* (or to the return or the exception, when there is none)
GetService(c, api_name, api_version, scopes) ==
    /\ pc[c] \in {"idle", "returned", "raised"}
    /\ args' = [args EXCEPT ![c] =
                  [api_name |-> api_name, api_version |-> api_version,
                   scopes |-> scopes, at |-> now]]
    /\ LET path == token_path(api_name)
           present == exists(fs, path)
       IN
       /\ found' = [found EXCEPT ![c] = IF present THEN file(fs[path]) ELSE no_file]
       /\ IF present /\ ~well_formed(fs[path])
          THEN \* line 20 raises ValueError
               /\ creds' = [creds EXCEPT ![c] = None]
               /\ trace' = [trace EXCEPT ![c] = <<"load">>]
               /\ result' = [result EXCEPT ![c] = raise("ValueError")]
               /\ pc' = [pc EXCEPT ![c] = "raised"]
          ELSE LET loaded == IF present
                             THEN from_authorized_user_file(fs[path], scopes)
                             ELSE None
                   seen == IF present THEN <<"load">> ELSE <<>>
               IN
               /\ creds' = [creds EXCEPT ![c] = loaded]
               /\ IF ~needs_auth(loaded, now)
                  THEN \* line 36
                       /\ trace' = [trace EXCEPT ![c] = seen]
                       /\ result' = [result EXCEPT ![c] =
                                       build(api_name, api_version, loaded, now)]
                       /\ pc' = [pc EXCEPT ![c] = "returned"]
                  ELSE IF can_refresh(loaded, now)
                  THEN \* line 25: the refresh request is sent
                       /\ trace' = [trace EXCEPT ![c] = seen \o <<"refresh">>]
                       /\ result' = [result EXCEPT ![c] = None]
                       /\ pc' = [pc EXCEPT ![c] = "refresh"]
                  ELSE IF from_client_secrets_file(fs)
                  THEN \* line 30: the browser is opened
                       /\ trace' = [trace EXCEPT ![c] = seen \o <<"read_client", "flow">>]
                       /\ result' = [result EXCEPT ![c] = None]
                       /\ pc' = [pc EXCEPT ![c] = "flow"]
                  ELSE \* line 29 raises FileNotFoundError
                       /\ trace' = [trace EXCEPT ![c] = seen \o <<"read_client">>]
                       /\ result' = [result EXCEPT ![c] = raise("FileNotFoundError")]
                       /\ pc' = [pc EXCEPT ![c] = "raised"]
    /\ UNCHANGED <<fs, now, issued>>

\* the handle is built and nothing is saved
ReturnWithoutSave(c, new) ==
    /\ creds' = [creds EXCEPT ![c] = new]
    /\ result' = [result EXCEPT ![c] =
                    build(args[c].api_name, args[c].api_version, new, now)]
    /\ pc' = [pc EXCEPT ![c] = "returned"]
    /\ UNCHANGED <<fs, trace>>

\* gspace_auth.py:32-36: save creds, build the handle
SaveAndReturn(c, new) ==
    /\ creds' = [creds EXCEPT ![c] = new]
    /\ fs' = open_w(fs, token_path(args[c].api_name), to_json(new))
    /\ trace' = [trace EXCEPT ![c] = @ \o <<"write">>]
    /\ result' = [result EXCEPT ![c] =
                    build(args[c].api_name, args[c].api_version, new, now)]
    /\ pc' = [pc EXCEPT ![c] = "returned"]

\* a failure that removes the token file of the service
PropagateRemoving(c, error) ==
    /\ result' = [result EXCEPT ![c] = raise(error)]
    /\ pc' = [pc EXCEPT ![c] = "raised"]
    /\ fs' = [p \in DOMAIN fs \ {token_path(args[c].api_name)} |-> fs[p]]
    /\ UNCHANGED <<creds, trace>>

\* a failure after the token file was opened for writing: it is left empty
PropagateTruncating(c, error) ==
    /\ result' = [result EXCEPT ![c] = raise(error)]
    /\ pc' = [pc EXCEPT ![c] = "raised"]
    /\ fs' = [p \in DOMAIN fs \cup {token_path(args[c].api_name)} |->
                IF p = token_path(args[c].api_name) THEN <<>> ELSE fs[p]]
    /\ UNCHANGED <<creds, trace>>

\* an exception propagates out of get_service: nothing is saved
Propagate(c, error) ==
    /\ result' = [result EXCEPT ![c] = raise(error)]
    /\ pc' = [pc EXCEPT ![c] = "raised"]
    /\ UNCHANGED <<fs, creds, trace>>

\* a refresh that takes the refresh token from the answer even when it has none
refreshed_forgets_refresh_token(old, access, rotated, life, t) ==
    [token |-> access, refresh_token |-> rotated,
     expiry |-> t + life, scopes |-> old.scopes]

\* Credentials.refresh on success: new access token and expiry; the refresh
\* token is kept unless the provider sent a new one
refreshed(old, access, rotated, life, t) ==
    [token |-> access,
     refresh_token |-> IF rotated = Null THEN old.refresh_token ELSE rotated,
     expiry |-> t + life, scopes |-> old.scopes]

\* gspace_auth.py:25 answered with tokens, then lines 32-36
RefreshSucceeds(c, life, rotate) ==
    /\ pc[c] = "refresh"
    /\ issued < MaxIssued
    /\ issued' = issued + 1
    /\ SaveAndReturn(c, refreshed(creds[c], Token(issued + 1),
                                  IF rotate THEN RefreshToken(issued + 1) ELSE Null,
                                  life, now))
    /\ UNCHANGED <<now, args, found>>

\* a refused refresh that goes on to the interactive flow
RefreshFallsThrough(c) ==
    /\ pc[c] = "refresh"
    /\ pc' = [pc EXCEPT ![c] = "flow"]
    /\ trace' = [trace EXCEPT ![c] = @ \o <<"read_client", "flow">>]
    /\ UNCHANGED <<fs, creds, result, now, issued, args, found>>

\* gspace_auth.py:25 raises RefreshError (token revoked, network down)
RefreshFails(c) ==
    /\ pc[c] = "refresh"
    /\ Propagate(c, "RefreshError")
    /\ UNCHANGED <<now, issued, args, found>>

\* a grant that does not carry the scopes the flow was started with
granted_without_scopes(access, refresh, life, scopes, t) ==
    [token |-> access, refresh_token |-> refresh, expiry |-> t + life, scopes |-> {}]

\* flow.credentials after the code exchange
granted(access, refresh, life, scopes, t) ==
    [token |-> access, refresh_token |-> refresh, expiry |-> t + life, scopes |-> scopes]

\* gspace_auth.py:30 returns credentials, then lines 32-36
FlowSucceeds(c, life, with_refresh) ==
    /\ pc[c] = "flow"
    /\ issued < MaxIssued
    /\ issued' = issued + 1
    /\ SaveAndReturn(c, granted(Token(issued + 1),
                                IF with_refresh THEN RefreshToken(issued + 1) ELSE Null,
                                life, args[c].scopes, now))
    /\ UNCHANGED <<now, args, found>>

\* gspace_auth.py:30 raises (consent denied, network down)
FlowFails(c) ==
    /\ pc[c] = "flow"
    /\ Propagate(c, "FlowError")
    /\ UNCHANGED <<now, issued, args, found>>

\* time passes
Tick ==
    /\ now < MaxTime
    /\ now' = now + 1
    /\ UNCHANGED <<fs, issued, pc, args, creds, found, trace, result, inv>>

\* get_service called on its own, as test_auth.py:6 does
DirectCall(c, api_name, api_version, scopes) ==
    GetService(c, api_name, api_version, scopes) /\ UNCHANGED inv

\* the answers of the provider to a call in progress; the tool waits
RefreshAnswered(c, life, rotate) == RefreshSucceeds(c, life, rotate) /\ UNCHANGED inv
RefreshRefused(c) == RefreshFails(c) /\ UNCHANGED inv
FlowAnswered(c, life, with_refresh) == FlowSucceeds(c, life, with_refresh) /\ UNCHANGED inv
FlowRefused(c) == FlowFails(c) /\ UNCHANGED inv

Next ==
    \/ \E s \in Services :
          \E sc \in Scopes(s) : DirectCall(Main, s, Version(s), sc)
    \/ \E life \in 1..MaxLife, rotate \in BOOLEAN :
          RefreshAnswered(Main, life, rotate)
    \/ RefreshRefused(Main)
    \/ \E life \in 1..MaxLife, with_refresh \in BOOLEAN :
          FlowAnswered(Main, life, with_refresh)
    \/ FlowRefused(Main)
    \/ Tick

Spec == Init /\ [][Next]_vars

\* ------------------------------------------------------------------ tools
\* the tools modelled: get_service outside the try and a loop over the
\* messages (gmail.py:17), one call inside the try (gmail.py:174,
\* gdrive.py:15), a loop over the chunks (gdrive.py:92), two calls and no
\* try (gcalendar.py:47)
Tools ==
    {"list_recent_emails", "send_email", "list_files", "download_file", "update_event"}

\* the api_name each tool passes (gmail.py:19, gmail.py:195, gdrive.py:29,
\* gdrive.py:104, gcalendar.py:49)
ToolService(tool) ==
    IF tool \in {"list_recent_emails", "send_email"} THEN "gmail"
    ELSE IF tool = "update_event" THEN "calendar"
    ELSE "drive"

\* the scopes each tool passes
ToolScopes(tool) ==
    IF tool \in {"list_recent_emails", "send_email"}
    THEN {"gmail.readonly", "gmail.send"}
    ELSE IF tool = "list_files" THEN {"drive.metadata.readonly"}
    ELSE IF tool = "update_event" THEN {"calendar"}
    ELSE {"drive.readonly"}

\* the tools whose number of remote calls follows the answer to the first one
Loops == {"list_recent_emails", "download_file"}

\* one call too many after the first
calls_after_first_extra(tool, n) ==
    IF tool \in Loops THEN n + 1
    ELSE IF tool = "update_event" THEN 1
    ELSE 0

\* the remote calls a tool makes after its first one: a messages().get for each
\* of the n messages listed (gmail.py:31-36), a next_chunk for each of the n
\* chunks still missing (gdrive.py:109-110), the events().update after the
\* events().get (gcalendar.py:64), none otherwise
calls_after_first(tool, n) ==
    IF tool \in Loops THEN n
    ELSE IF tool = "update_event" THEN 1
    ELSE 0

\* a tool that goes on whatever get_service did
may_call_regardless(state) == state \in {"returned", "raised"}

\* a tool makes remote calls on the handle get_service returned
\* (gmail.py:19-21: the call follows the assignment of the handle)
may_call(state) == state = "returned"

\* what the tool gives its caller when a remote call raised HttpError:
\* gmail.py:69-71 return [], gmail.py:233-235 return the message,
\* gdrive.py:35-36 and 112-113 raise Exception, gcalendar.py has no try
on_http_error(tool) ==
    IF tool = "list_recent_emails" THEN [kind |-> "value", value |-> "[]"]
    ELSE IF tool = "send_email" THEN [kind |-> "error_value", value |-> "message"]
    ELSE IF tool = "update_event" THEN [kind |-> "raised", value |-> "HttpError"]
    ELSE [kind |-> "raised", value |-> "Exception"]

\* the tool is called: its get_service call (gmail.py:19, 195; gdrive.py:29, 104)
Invoke(c, tool) ==
    /\ inv[c].phase \in {"none", "done", "failed"}
    /\ GetService(c, ToolService(tool), Version(ToolService(tool)), ToolScopes(tool))
    /\ inv' = [inv EXCEPT ![c] =
                 [tool |-> tool, phase |-> "acquire", acquires |-> 1, calls |-> 0,
                  items |-> 0, pending |-> 0, failed_call |-> FALSE, outcome |-> None]]

\* the exception of get_service leaves the tool: no except clause names it
Abort(c) ==
    /\ inv[c].phase = "acquire"
    /\ pc[c] = "raised"
    /\ inv' = [inv EXCEPT ![c].phase = "failed",
                          ![c].outcome = [kind |-> "raised", value |-> result[c].error]]
    /\ UNCHANGED <<fs, now, issued, pc, args, creds, found, trace, result>>

\* the tool's first remote call (gmail.py:21-26, 223-228; gdrive.py:30-33, 110;
\* gcalendar.py:51) answered with n items (messages listed, chunks still to
\* fetch) and, when it was the last one, the tool's return
FirstCall(c, ok, n) ==
    /\ inv[c].phase = "acquire"
    /\ may_call(pc[c])
    /\ LET more == calls_after_first(inv[c].tool, n)
           size == IF inv[c].tool \in Loops THEN n ELSE 0
       IN
       inv' = [inv EXCEPT ![c] =
                 IF ~ok
                 THEN [@ EXCEPT !.calls = 1, !.failed_call = TRUE, !.phase = "done",
                                !.outcome = on_http_error(inv[c].tool)]
                 ELSE IF more = 0
                 THEN [@ EXCEPT !.calls = 1, !.items = size, !.phase = "done",
                                !.outcome = [kind |-> "value", value |-> "result"]]
                 ELSE [@ EXCEPT !.calls = 1, !.items = size, !.pending = more,
                                !.phase = "loop"]]
    /\ UNCHANGED <<fs, now, issued, pc, args, creds, found, trace, result>>

\* the next remote call (gmail.py:32-36, gdrive.py:110, gcalendar.py:64)
NextCall(c, ok) ==
    /\ inv[c].phase = "loop"
    /\ inv' = [inv EXCEPT ![c] =
                 IF ~ok
                 THEN [@ EXCEPT !.calls = @ + 1, !.failed_call = TRUE, !.phase = "done",
                                !.outcome = on_http_error(inv[c].tool)]
                 ELSE IF inv[c].pending = 1
                 THEN [@ EXCEPT !.calls = @ + 1, !.pending = 0, !.phase = "done",
                                !.outcome = [kind |-> "value", value |-> "result"]]
                 ELSE [@ EXCEPT !.calls = @ + 1, !.pending = @ - 1]]
    /\ UNCHANGED <<fs, now, issued, pc, args, creds, found, trace, result>>

\* the tools start on a fresh installation: no token file yet, the client
\* file provided or not
ToolInit ==
    /\ Init
    /\ DOMAIN fs \subseteq {client_file}

ToolNext ==
    \/ \E tool \in Tools : Invoke(Main, tool)
    \/ \E life \in 1..MaxLife, rotate \in BOOLEAN :
          RefreshAnswered(Main, life, rotate)
    \/ RefreshRefused(Main)
    \/ \E life \in 1..MaxLife, with_refresh \in BOOLEAN :
          FlowAnswered(Main, life, with_refresh)
    \/ FlowRefused(Main)
    \/ Abort(Main)
    \/ \E ok \in BOOLEAN, n \in 0..MaxItems : FirstCall(Main, ok, n)
    \/ \E ok \in BOOLEAN : NextCall(Main, ok)
    \/ Tick

ToolSpec == ToolInit /\ [][ToolNext]_vars

\* --------------------------------------------------------- two callers
\* the api_version a caller passes along with a scope set: get_service takes
\* any, so the two calls for one service differ in both arguments
VersionWith(api_name, scopes) ==
    IF scopes \in {{"gmail.readonly", "gmail.send"}, {"drive.metadata.readonly"}}
    THEN "v1" ELSE "v3"

\* the registration is there and no token file is; the calls are made within
\* the lifetime of every token issued, so none expires and none is refreshed
RaceInit ==
    /\ Init
    /\ DOMAIN fs = {client_file}

RaceNext ==
    \/ \E c \in Callers, s \in Services :
          \E sc \in Scopes(s) : DirectCall(c, s, VersionWith(s, sc), sc)
    \/ \E c \in Callers, life \in 1..MaxLife, with_refresh \in BOOLEAN :
          FlowAnswered(c, life, with_refresh)
    \/ \E c \in Callers : FlowRefused(c)

RaceSpec == RaceInit /\ [][RaceNext]_vars

TypeOK ==
    /\ now \in 0..MaxTime
    /\ issued \in 0..MaxIssued
    /\ \A c \in Callers : pc[c] \in {"idle", "refresh", "flow", "returned", "raised"}

\* ------------------------------------------------------- reading the state
\* call c has touched e (a file or an endpoint)
Touched(c, e) == \E i \in DOMAIN trace[c] : trace[c][i] = e

\* how often call c has touched e
Count(c, e) == Cardinality({i \in DOMAIN trace[c] : trace[c][i] = e})

\* call c has made no authorization exchange with the provider
NoNetwork(c) == \A e \in Network : ~Touched(c, e)

\* call c found a token file that loads as a credential record
FoundRecord(c) == found[c].present /\ well_formed(found[c].content)

\* the record it found
Record(c) == found[c].content[1]

\* that record was expired when the call was made
FoundExpired(c) == Record(c).expiry <= args[c].at

\* the content of the token file of the service call c asked for
Persisted(c) == fs[token_path(args[c].api_name)]

\* call c found no token file, ran the flow, wrote and returned
Raced(c) ==
    /\ pc[c] = "returned"
    /\ ~found[c].present
    /\ Touched(c, "flow")
    /\ Touched(c, "write")

\* the token files a file system holds for a service name
RecordsOf(f, api_name) == {p \in DOMAIN f : Len(p) = 3 /\ p[2] = api_name}

\* the step is a call of get_service by c
Called(c) ==
    /\ pc[c] \in {"idle", "returned", "raised"}
    /\ <<pc[c], args[c], found[c], trace[c], result[c]>>'
          # <<pc[c], args[c], found[c], trace[c], result[c]>>

\* the authorization exchanges call c has started
Exchanges(c) == Count(c, "refresh") + Count(c, "flow")

\* ------------------------------------------------------------------ claims

\* C1: a cached record whose granted scopes do not cover the requested scopes
\* is never returned in a handle: such a call runs the interactive flow.
C1_ScopeGapReauthorizes ==
    \A c \in Callers :
        ( /\ pc[c] = "returned"
          /\ FoundRecord(c)
          /\ ~(args[c].scopes \subseteq Record(c).scopes) )
        => Touched(c, "flow")

\* C2: a call that finds a token file holding an unexpired record returns its
\* handle without any authorization exchange (no refresh, no flow); so does, in
\* particular, the second of two calls in succession.
C2_CacheHitNoNetwork ==
    \A c \in Callers :
        (pc[c] # "idle" /\ FoundRecord(c) /\ ~FoundExpired(c))
        => (pc[c] = "returned" /\ NoNetwork(c))

\* a second call was served from the record the first call had written
C2_Witness ==
    /\ pc[Main] = "returned"
    /\ FoundRecord(Main)
    /\ Record(Main).token # Token(0)
    /\ ~FoundExpired(Main)
    /\ trace[Main] = <<"load">>

\* C3: a call that found an expired record with a refresh token and whose
\* refresh succeeded made exactly one refresh exchange and no interactive flow,
\* and the persisted record has a later expiry and the same refresh token,
\* or the one the provider sent with the new access token.
C3_RefreshOnceAndPersist ==
    \A c \in Callers :
        ( /\ pc[c] = "returned"
          /\ FoundRecord(c)
          /\ FoundExpired(c)
          /\ Record(c).refresh_token # Null )
        => /\ Count(c, "refresh") = 1
           /\ ~Touched(c, "flow")
           /\ Len(Persisted(c)) = 1
           /\ Persisted(c)[1].expiry > Record(c).expiry
           /\ "refresh_token" \in DOMAIN Persisted(c)[1]
           /\ \/ Persisted(c)[1].refresh_token = Record(c).refresh_token
              \/ Persisted(c)[1].refresh_token = RefreshToken(Persisted(c)[1].token[2])

\* a refresh succeeded and the provider kept the refresh token
C3_Witness ==
    /\ pc[Main] = "returned"
    /\ FoundRecord(Main)
    /\ FoundExpired(Main)
    /\ Record(Main).refresh_token # Null
    /\ Touched(Main, "refresh")
    /\ Persisted(Main)[1].refresh_token = Record(Main).refresh_token
    /\ Persisted(Main)[1].token # Record(Main).token

\* C4: a call that finds a corrupt token file goes on to the interactive
\* branch and does not end in the parse error.
C4_CorruptCacheFallsBack ==
    \A c \in Callers :
        (pc[c] # "idle" /\ found[c].present /\ ~parses(found[c].content))
        => /\ result[c] # raise("ValueError")
           /\ Touched(c, "read_client")

\* C5: a call never ends in the refresh error: after a failed refresh it goes
\* on to the interactive flow and can fail only there.
C5_RefreshFailureFallsThrough ==
    \A c \in Callers :
        (pc[c] = "raised" /\ Touched(c, "refresh")) => Touched(c, "flow")

\* C6 as stated: with the registration file missing every call fails, and
\* fails before any exchange, whatever the cached record is.
C6_Original ==
    ~exists(fs, client_file)
    => \A c \in Callers :
          pc[c] # "idle" => (pc[c] = "raised" /\ NoNetwork(c))

\* C6 amended: with the registration file missing, a call that finds no token
\* file, or an expired record without a refresh token, fails with the error of
\* reading the registration file, before any exchange.
C6_MissingRegistrationFailsFlow ==
    ~exists(fs, client_file)
    => \A c \in Callers :
          ( /\ pc[c] # "idle"
            /\ \/ ~found[c].present
               \/ /\ FoundRecord(c)
                  /\ FoundExpired(c)
                  /\ Record(c).refresh_token = Null )
          => /\ result[c] = raise("FileNotFoundError")
             /\ NoNetwork(c)

\* no registration file, no token file: the call has failed
C6_Witness ==
    /\ ~exists(fs, client_file)
    /\ pc[Main] = "raised"
    /\ ~found[Main].present
    /\ trace[Main] = <<"read_client">>

\* C7: a call that finds an expired record without a refresh token makes no
\* refresh exchange; the next thing it does is the interactive branch.
C7_NoRefreshWithoutRefreshToken ==
    \A c \in Callers :
        ( /\ pc[c] # "idle"
          /\ FoundRecord(c)
          /\ FoundExpired(c)
          /\ Record(c).refresh_token = Null )
        => /\ ~Touched(c, "refresh")
           /\ Len(trace[c]) >= 2
           /\ trace[c][2] = "read_client"
           /\ exists(fs, client_file) => (Len(trace[c]) >= 3 /\ trace[c][3] = "flow")

\* such a call is in the interactive flow
C7_Witness ==
    /\ pc[Main] = "flow"
    /\ FoundRecord(Main)
    /\ FoundExpired(Main)
    /\ Record(Main).refresh_token = Null

\* C8: after a call that found no token file and whose interactive flow
\* succeeded, the token file holds one record with an access token, a refresh
\* token and an expiry in the future.
C8_FlowPersistsFullRecord ==
    \A c \in Callers :
        (pc[c] = "returned" /\ ~found[c].present /\ result[c].at = now)
        => /\ Touched(c, "flow")
           /\ exists(fs, token_path(args[c].api_name))
           /\ Len(Persisted(c)) = 1
           /\ Persisted(c)[1].token # Null
           /\ "refresh_token" \in DOMAIN Persisted(c)[1]
           /\ Persisted(c)[1].refresh_token # Null
           /\ Persisted(c)[1].expiry > now

\* C9: the credential of every handle expires after the moment the handle
\* was returned.
C9_HandleUnexpired ==
    \A c \in Callers :
        pc[c] = "returned" => result[c].credentials.expiry > result[c].at

\* a handle was returned from a refresh of an expired record
C9_Witness ==
    /\ pc[Main] = "returned"
    /\ FoundRecord(Main)
    /\ FoundExpired(Main)
    /\ Touched(Main, "refresh")
    /\ result[Main].credentials.expiry > now

\* C10: every service has at most one token file, every token file holds at
\* most one record, and after a refresh or a grant it holds exactly the record
\* of the credential in the handle.
C10_OneRecordPerService ==
    /\ \A s \in Services : Cardinality({p \in DOMAIN fs : p[2] = s}) <= 1
    /\ \A p \in DOMAIN fs : Len(fs[p]) <= 1
    /\ \A c \in Callers :
          (pc[c] = "returned" /\ Touched(c, "write"))
          => Persisted(c) = <<to_json(result[c].credentials)>>

\* a grant has overwritten a record that was there before
C10_Witness ==
    /\ pc[Main] = "returned"
    /\ FoundRecord(Main)
    /\ Touched(Main, "flow")
    /\ Touched(Main, "write")
    /\ Persisted(Main) # found[Main].content

\* C11: when get_service has returned, the token file of the service exists
\* and holds the access token of the credential in the handle; while a refresh
\* or a flow is still in progress there is no handle and nothing was written,
\* and once it has answered the write is the last thing the call did before
\* the handle was there.
C11_PersistedBeforeReturn ==
    \A c \in Callers :
       /\ pc[c] = "returned" =>
             /\ exists(fs, token_path(args[c].api_name))
             /\ parses(Persisted(c))
             /\ Persisted(c)[1].token = result[c].credentials.token
             /\ ~NoNetwork(c) => /\ Count(c, "write") = 1
                                 /\ trace[c][Len(trace[c])] = "write"
       /\ pc[c] \in {"refresh", "flow"} =>
             /\ result[c] = None
             /\ ~Touched(c, "write")

\* a call that ran the flow has returned and the file holds the handle's token
C11_Witness ==
    /\ pc[Main] = "returned"
    /\ Touched(Main, "flow")
    /\ result[Main].credentials.token # Token(0)
    /\ Persisted(Main)[1].token = result[Main].credentials.token

\* C12: no step removes a file: a token file that exists exists after every
\* step, and one that holds a record still holds a record.
C12_RecordNeverDeleted ==
    [][\A p \in DOMAIN fs :
          /\ p \in DOMAIN fs'
          /\ parses(fs[p]) => parses(fs'[p])]_vars

\* a call found a record, failed in the flow, and the record is still there
C12_Witness ==
    /\ pc[Main] = "raised"
    /\ result[Main].error = "FlowError"
    /\ FoundRecord(Main)
    /\ exists(fs, token_path(args[Main].api_name))
    /\ parses(Persisted(Main))

\* C17: a call that ran the flow and returned has persisted the record of that
\* flow: it carries exactly the scopes passed to the call, whatever the scopes
\* of the record found, and it is the credential in the handle, with a token
\* the record found did not have.
C17_FlowUsesRequestedScopes ==
    \A c \in Callers :
       (pc[c] = "returned" /\ Touched(c, "flow")) =>
          /\ Persisted(c) = <<to_json(result[c].credentials)>>
          /\ Persisted(c)[1].scopes = args[c].scopes
          /\ FoundRecord(c) => Persisted(c)[1].token # Record(c).token

\* the flow ran over a record saved with other scopes
C17_Witness ==
    /\ pc[Main] = "returned"
    /\ Touched(Main, "flow")
    /\ FoundRecord(Main)
    /\ Record(Main).scopes # args[Main].scopes
    /\ Persisted(Main)[1].scopes = args[Main].scopes

\* C19: when get_service has raised, the token file of the service is what the
\* call found: the same content when there was a file, no file when there was
\* none.
C19_FailureLeavesRecord ==
    \A c \in Callers :
       pc[c] = "raised" =>
          /\ found[c].present =>
                /\ exists(fs, token_path(args[c].api_name))
                /\ Persisted(c) = found[c].content
          /\ ~found[c].present => ~exists(fs, token_path(args[c].api_name))
          /\ ~Touched(c, "write")

\* a refresh was refused and the record, refresh token included, is intact
C19_Witness ==
    /\ pc[Main] = "raised"
    /\ result[Main].error = "RefreshError"
    /\ FoundRecord(Main)
    /\ Persisted(Main) = found[Main].content
    /\ Persisted(Main)[1].refresh_token # Null

\* C20: a call that found a record not yet expired has returned, has touched
\* nothing but the token file it loaded (no write, no read of the client file,
\* no exchange), and the token file is what it found.
C20_CacheHitChangesNothing ==
    \A c \in Callers :
       (pc[c] # "idle" /\ FoundRecord(c) /\ ~FoundExpired(c)) =>
          /\ pc[c] = "returned"
          /\ trace[c] = <<"load">>
          /\ exists(fs, token_path(args[c].api_name))
          /\ Persisted(c) = found[c].content

\* a cache hit with no client file
C20_Witness ==
    /\ pc[Main] = "returned"
    /\ FoundRecord(Main)
    /\ ~FoundExpired(Main)
    /\ ~exists(fs, client_file)
    /\ result[Main].kind = "handle"

\* C13: in every tool invocation, when get_service has raised the tool has made
\* no remote call and makes none: it is waiting to fail or has failed with the
\* exception of get_service; a remote call was made, and a tool has ended
\* otherwise than by that exception, only after get_service returned.
C13_AcquireFailureAborts ==
    \A c \in Callers :
       inv[c].tool # "none" =>
          /\ pc[c] = "raised" =>
                /\ inv[c].calls = 0
                /\ inv[c].phase \in {"acquire", "failed"}
          /\ inv[c].phase = "failed" =>
                /\ pc[c] = "raised"
                /\ inv[c].calls = 0
                /\ inv[c].outcome = [kind |-> "raised", value |-> result[c].error]
          /\ inv[c].calls > 0 => pc[c] = "returned"
          /\ inv[c].phase \in {"loop", "done"} => pc[c] = "returned"

\* a tool has failed with the error of a refused refresh, no remote call made
C13_Witness ==
    /\ inv[Main].phase = "failed"
    /\ inv[Main].calls = 0
    /\ inv[Main].outcome = [kind |-> "raised", value |-> "RefreshError"]

\* C14: a tool invocation in which a remote call failed ends in an error (an
\* exception or an error message), never in a value like that of a success.
C14_FailedCallIsError ==
    \A c \in Callers :
       (inv[c].failed_call /\ inv[c].phase = "done") =>
          inv[c].outcome.kind \in {"raised", "error_value"}

C15_RaceLastWriterWins ==
    \A c, d \in Callers :
       ( /\ c # d
         /\ Raced(c)
         /\ Raced(d)
         /\ args[c].api_name = args[d].api_name
         /\ result[c].credentials.token[2] < result[d].credentials.token[2] )
       => /\ Persisted(c) = <<to_json(result[d].credentials)>>
          /\ Persisted(c) # <<to_json(result[c].credentials)>>

\* both calls ran the flow for one service and the second overwrote the first
C15_Witness ==
    /\ Raced("c1")
    /\ Raced("c2")
    /\ args["c1"].api_name = args["c2"].api_name
    /\ result["c1"].credentials.token # result["c2"].credentials.token
    /\ Persisted("c1") = <<to_json(result["c2"].credentials)>>

\* C16: a step changes or creates only a token file named after the service of
\* the call that writes, and a call finds exactly what the file named after
\* its service holds, whatever its api_version and scopes.
C16_KeyedByServiceName ==
    [][ /\ \A p \in DOMAIN fs' :
              (p \notin DOMAIN fs \/ fs'[p] # fs[p]) =>
                 \E c \in Callers :
                    /\ pc[c] \in {"refresh", "flow"}
                    /\ pc'[c] = "returned"
                    /\ p \in RecordsOf(fs', args[c].api_name)
        /\ \A c \in Callers :
              Called(c) =>
                 LET mine == RecordsOf(fs, args'[c].api_name) IN
                 IF mine = {} THEN found'[c] = no_file
                 ELSE \E p \in mine : found'[c] = file(fs[p]) ]_vars

\* a call returned on the record another call wrote for the same service under
\* another api_version and other scopes, while the other service has no record
C16_Witness ==
    /\ pc["c2"] = "returned"
    /\ trace["c2"] = <<"load">>
    /\ pc["c1"] = "returned"
    /\ Touched("c1", "write")
    /\ args["c1"].api_name = args["c2"].api_name
    /\ args["c1"].api_version # args["c2"].api_version
    /\ args["c1"].scopes # args["c2"].scopes
    /\ result["c2"].credentials.token = result["c1"].credentials.token
    /\ \E s \in Services : ~exists(fs, token_path(s))

\* C21: a call starts at most one authorization exchange, a refresh or a flow,
\* and the step in which its exchange is answered ends the call, with a handle
\* or an exception, and starts no other exchange.
C21_OneExchangePerCall ==
    [][\A c \in Callers :
          /\ Exchanges(c) <= 1
          /\ Exchanges(c)' <= 1
          /\ (pc[c] \in {"refresh", "flow"} /\ pc'[c] # pc[c]) =>
                /\ pc'[c] \in {"returned", "raised"}
                /\ result'[c].kind \in {"handle", "error"}
                /\ Exchanges(c)' = 1]_vars

\* a call whose only exchange, a refresh, was refused has ended
C21_Witness ==
    /\ pc[Main] = "raised"
    /\ result[Main] = raise("RefreshError")
    /\ Count(Main, "refresh") = 1
    /\ Count(Main, "flow") = 0

====
